---- MODULE Spec2Model ----
(***************************************************************************)
(* Weekly meal-plan generator (make_plan), nutrition analyzer              *)
(* (analyze_menu_plan), daily totals and the sheet round trip              *)
(* (export_plan / menu-plan import), the import page, bulk_add and         *)
(* analyses run at once on one store, of src/meal_ai.py and src/app.py.    *)
(*                                                                         *)
(* The module's strings are ASCII; the source's labels are written as      *)
(*   weekdays   Mon Tue Wed Thu Fri   for  월 화 수 목 금                  *)
(*   slots      Rice Soup Main Side1 Side2 Other                           *)
(*              for 잡곡밥 국/수프 메인 사이드1 사이드2 기타               *)
(*   categories Soup Main Side        for  수프 메인 사이드                *)
(*   day column DayCol                for  요일                            *)
(***************************************************************************)
EXTENDS Integers, Sequences, FiniteSets, TLC

VARIABLES
    menus,          \* make_plan: the catalog snapshot read by get_all_menus()
    used_menus,     \* make_plan: the set used_menus
    plan_len,       \* make_plan: len(plan), the number of day rows appended
    day_plan,       \* make_plan: the day_plan appended last (NoRow before day 1)
    pc,             \* make_plan: "loop", "returned" or the exception raised
    db,             \* the menus table of meal.db, in insertion order
    plan_df,        \* analyze_menu_plan: the plan it is called with
    a_menus,        \* analyze_menu_plan: its local snapshot "menus"
    existing_menus, \* analyze_menu_plan: the set existing_menus
    nutrition_data, \* analyze_menu_plan: the list nutrition_data
    a_row,          \* analyze_menu_plan: index of the plan row being read
    a_slot,         \* analyze_menu_plan: index into meal_types being read
    classify_log,   \* every classify_menu call so far: name, outcome, response
    nutrition_df,   \* analyze_menu_plan: the sorted frame it returns
    daily_totals,   \* export_plan: the frame daily_totals
    a_pc,           \* analyze_menu_plan / export_plan: position or exception
    sheet,          \* export_plan: the plan sheet written (plan_out_df)
    df_t,           \* menu-plan import: the plan df_t read back from a sheet
    x_pc,           \* export_plan / the import page: position or outcome
    sheet_names,    \* menu-plan import: xl.sheet_names of the uploaded workbook
    sheet_name,     \* menu-plan import: the sheet name found (NoName if none)
    upload,         \* menu-plan import: the sheet of the uploaded workbook
    menu_list,      \* bulk_add: the list menu_names it is called with
    b_i,            \* bulk_add: index of the name being added
    b_pc,           \* bulk_add: "idle", "loop", "done" or "raised"
    edits,          \* the delete_menu(s) / update_menu_* calls made so far
    del_names,      \* delete_menus: the names its loop has still to delete
    runs            \* concurrent analyze_menu_plan runs: each run's locals

planVars == <<menus, used_menus, plan_len, day_plan, pc>>
analyzeVars == <<db, plan_df, a_menus, existing_menus, nutrition_data, a_row,
                 a_slot, classify_log, nutrition_df, daily_totals, a_pc>>
sheetVars == <<sheet, df_t, x_pc>>
bookVars == <<sheet_names, sheet_name, upload>>
bulkVars == <<menu_list, b_i, b_pc, edits, del_names>>
vars == <<planVars, analyzeVars, sheetVars, bookVars, bulkVars, runs>>

---------------------------------------------------------------------------
(* Labels and bounds *)

\* the weekdays of the for loop, in its order
Days == <<"Mon", "Tue", "Wed", "Thu", "Fri">>

\* the fixed rice value
Rice == "Rice"

\* the three mandatory categories
Mandatory == {"Soup", "Main", "Side"}

\* bounds on the number of catalog items per category
MaxSoup == 2
MaxMain == 1
MaxSide == 4
MaxEtc == 2

\* menu names per category; the first Other item is the rice item itself
SoupNames == <<"S1", "S2", "S3", "S4", "S5", "S6">>
MainNames == <<"M1", "M2", "M3", "M4", "M5", "M6">>
SideNames == <<"D1", "D2", "D3", "D4", "D5", "D6">>
EtcNames == <<Rice, "E1", "E2", "E3", "E4", "E5">>

\* a row of the menus table (id and created_at are never read)
MenuRow(name, category, cal, pro, fat, carb, sod) ==
    [name |-> name, category |-> category, calories |-> cal, protein |-> pro,
     fat |-> fat, carbs |-> carb, sodium |-> sod]

\* the first n names of a pool as rows of one category
RowsOf(pool, category, n) ==
    [i \in 1..n |-> MenuRow(pool[i], category, i, i, i, i, i)]

\* the catalogs make_plan is run on
PlanCatalogs ==
    { RowsOf(SoupNames, "Soup", ns) \o RowsOf(MainNames, "Main", nm)
        \o RowsOf(SideNames, "Side", nd) \o RowsOf(EtcNames, "Other", ne) :
        ns \in 0..MaxSoup, nm \in 0..MaxMain, nd \in 0..MaxSide, ne \in 0..MaxEtc }

---------------------------------------------------------------------------
(* make_plan *)

NoRow == [DayCol |-> "", Rice |-> "", Soup |-> "", Main |-> "",
          Side1 |-> "", Side2 |-> "", Other |-> ""]

\* menus[menus["category"] == cat]
CategoryRows(df, cat) == SelectSeq(df, LAMBDA m : m.category = cat)

\* the filter on the category left out
EtcRowsAny(df) == df
\* menus[~menus["category"].isin(["Soup", "Main", "Side"])]
EtcRows(df) == SelectSeq(df, LAMBDA m : m.category \notin Mandatory)

\* the filter on used_menus left out
UnusedNone(df, used) == df
\* df[~df["name"].isin(used)]
Unused(df, used) == SelectSeq(df, LAMBDA m : m.name \notin used)

\* "reuse the used menus when there are too few": an empty candidate frame
\* is replaced by the whole category
Reuse(available, all, df) == IF available = <<>> THEN all ELSE available

\* the candidate frame of a mandatory category on one day
Candidates(df, cat, used) ==
    Reuse(Unused(CategoryRows(df, cat), used), CategoryRows(df, cat), df)

\* the candidate frame of the Other slot on one day
EtcCandidates(df, used) == Reuse(Unused(EtcRows(df), used), EtcRows(df), df)

\* DataFrame.sample(1): the one-row frames it can return, and whether it
\* raises ValueError (a sample larger than the population)
Sample(df) == { <<df[i]>> : i \in DOMAIN df }
SampleRaises(df) == Len(df) < 1

\* available_side[available_side["name"] != side_menu1.iloc[0]["name"]]
SideRest(available_side, side_menu1) ==
    SelectSeq(available_side, LAMBDA m : m.name # side_menu1[1].name)

\* x.iloc[0]["name"] if not x.empty else ""
NameOf(sel) == IF sel # <<>> THEN sel[1].name ELSE ""

\* the Other slot: "" unless available_etc is non-empty and random() < 0.2
EtcChoices(available_etc) == {""} \cup { e[1].name : e \in Sample(available_etc) }

\* one iteration of the loop over the weekdays that appends a row
PlanDay ==
    /\ pc = "loop"
    /\ plan_len < Len(Days)
    /\ LET available_soup == Candidates(menus, "Soup", used_menus)
           available_main == Candidates(menus, "Main", used_menus)
           available_side == Candidates(menus, "Side", used_menus)
           available_etc == EtcCandidates(menus, used_menus)
       IN \E soup_menu \in Sample(available_soup),
             main_menu \in Sample(available_main),
             side_menu1 \in Sample(available_side) :
            \E side_menu2 \in Sample(SideRest(available_side, side_menu1)),
               etc_menu_name \in EtcChoices(available_etc) :
              /\ used_menus' =
                    used_menus
                      \cup (IF etc_menu_name # "" THEN {etc_menu_name} ELSE {})
                      \cup {NameOf(soup_menu), NameOf(main_menu),
                            NameOf(side_menu1), NameOf(side_menu2), Rice}
              /\ day_plan' =
                    [DayCol |-> Days[plan_len + 1], Rice |-> Rice,
                     Soup |-> NameOf(soup_menu), Main |-> NameOf(main_menu),
                     Side1 |-> NameOf(side_menu1), Side2 |-> NameOf(side_menu2),
                     Other |-> etc_menu_name]
    /\ plan_len' = plan_len + 1
    /\ UNCHANGED <<menus, pc, analyzeVars, sheetVars, bookVars, bulkVars, runs>>

\* one iteration in which a sample(1) raises: make_plan ends with ValueError
PlanDayRaise ==
    /\ pc = "loop"
    /\ plan_len < Len(Days)
    /\ LET available_side == Candidates(menus, "Side", used_menus)
       IN \/ SampleRaises(Candidates(menus, "Soup", used_menus))
          \/ SampleRaises(Candidates(menus, "Main", used_menus))
          \/ SampleRaises(available_side)
          \/ \E side_menu1 \in Sample(available_side) :
                SampleRaises(SideRest(available_side, side_menu1))
    /\ pc' = "ValueError"
    /\ UNCHANGED <<menus, used_menus, plan_len, day_plan, analyzeVars, sheetVars, bookVars, bulkVars, runs>>

\* return pd.DataFrame(plan)
PlanReturn ==
    /\ pc = "loop"
    /\ plan_len = Len(Days)
    /\ pc' = "returned"
    /\ UNCHANGED <<menus, used_menus, plan_len, day_plan, analyzeVars, sheetVars, bookVars, bulkVars, runs>>

---------------------------------------------------------------------------
(* Cell texts *)

\* A cell or label text is its core, possibly surrounded by white space;
\* a missing cell is NaN.
Txt(core) == [na |-> FALSE, pad |-> FALSE, core |-> core]
Padded(core) == [na |-> FALSE, pad |-> TRUE, core |-> core]
NaN == [na |-> TRUE, pad |-> FALSE, core |-> ""]

\* pd.notna(x)
NotNa(x) == ~x.na

\* str(x).strip()
Strip(x) == x.core

---------------------------------------------------------------------------
(* analyze_menu_plan *)

\* meal_types, in the order of the inner loop
MealTypes == <<"Soup", "Main", "Side1", "Side2", "Other">>

\* the slot labels in the order Python compares them as strings:
\* 국/수프 < 기타 < 메인 < 사이드1 < 사이드2
LabelOrder == <<"Soup", "Other", "Main", "Side1", "Side2">>

\* bounds of the plans analysed
MaxRows == 2
MaxCells == 2
MaxDb == 1

\* the position of x in the sequence s
IndexOf(s, x) == CHOOSE i \in DOMAIN s : s[i] = x

\* the elements of a sequence
Range(s) == { s[i] : i \in DOMAIN s }

\* the store's rows the analysed plans may name; the third repeats a name
StoreRows ==
    << MenuRow("A", "Soup", 300, 20, 10, 30, 800),
       MenuRow("B", "Main", 450, 35, 25, 15, 600),
       MenuRow("A", "Side", 50, 2, 1, 5, 90) >>

\* what classify_menu can answer
Responses ==
    { [category |-> "Side", calories |-> 120, protein |-> 7, fat |-> 3,
       carbs |-> 11, sodium |-> 400],
      [category |-> "Other", calories |-> 0, protein |-> 1, fat |-> 2,
       carbs |-> 3, sodium |-> 4] }

\* the log entry of a call that raised has no answer
NoInfo == [category |-> "", calories |-> 0, protein |-> 0, fat |-> 0,
           carbs |-> 0, sodium |-> 0]

\* the texts a filled cell may hold
FillValues == { Padded(""), Padded("A"), Txt("X") }

\* the column sets of the plans analysed
ColumnChoices == { Range(MealTypes), Range(MealTypes) \ {"Other"} }

\* injective sequences of weekdays of length n
DaySeqs(n) ==
    { ds \in [1..n -> Range(Days)] : \A i, j \in 1..n : ds[i] = ds[j] => i = j }

\* the plans with n rows over the columns cols: at most MaxCells cells are
\* filled, every other cell is NaN
PlansOf(n, cols) ==
    { [columns |-> cols,
       rows |-> [i \in 1..n |->
                   [DayCol |-> ds[i],
                    cells |-> [c \in cols |->
                                 IF <<i, c>> \in DOMAIN f THEN f[<<i, c>>] ELSE NaN]]]] :
        ds \in DaySeqs(n),
        f \in UNION { [P -> FillValues] :
                        P \in { Q \in SUBSET ((1..n) \X cols) :
                                  Cardinality(Q) <= MaxCells } } }

\* the store contents an analysis starts from
Stores == { SubSeq(StoreRows, 1, n) : n \in 0..MaxDb }

\* get_all_menus()
get_all_menus(store) == store

\* menus[menus["name"] == menu_name]
ByName(df, menu_name) == SelectSeq(df, LAMBDA m : m.name = menu_name)

\* add_menu: INSERT INTO menus the name, the category and the five nutrients
add_menu(store, name, info) ==
    Append(store, MenuRow(name, info.category, info.calories, info.protein,
                          info.fat, info.carbs, info.sodium))

\* the record appended to nutrition_data
NutritionRecord(day, meal_type, menu_name, menu_info) ==
    [DayCol |-> day, slot |-> meal_type, menu |-> menu_name,
     calories |-> menu_info[1].calories, protein |-> menu_info[1].protein,
     fat |-> menu_info[1].fat, carbs |-> menu_info[1].carbs,
     sodium |-> menu_info[1].sodium]

\* lines 441-454: look the name up in the snapshot and append its record
WithRecord(data, df, day, meal_type, menu_name) ==
    LET menu_info == ByName(df, menu_name)
    IN IF menu_info # <<>>
       THEN Append(data, NutritionRecord(day, meal_type, menu_name, menu_info))
       ELSE data

\* the cell the loops are at
CurRow == plan_df.rows[a_row]
CurType == MealTypes[a_slot]
InCells == a_pc = "cells" /\ a_row <= Len(plan_df.rows)

\* the condition of lines 425-429
Eligible ==
    /\ CurType \in plan_df.columns
    /\ NotNa(CurRow.cells[CurType])
    /\ Strip(CurRow.cells[CurType]) # ""

\* the next (row, meal_type) of the nested loops
Advance ==
    IF a_slot < Len(MealTypes)
    THEN a_slot' = a_slot + 1 /\ a_row' = a_row
    ELSE a_slot' = 1 /\ a_row' = a_row + 1

\* lines 417-421: read the snapshot
AnalyzeBegin ==
    /\ a_pc = "start"
    /\ a_menus' = get_all_menus(db)
    /\ existing_menus' = { m.name : m \in Range(get_all_menus(db)) }
    /\ nutrition_data' = <<>>
    /\ a_row' = 1
    /\ a_slot' = 1
    /\ a_pc' = "cells"
    /\ UNCHANGED <<planVars, sheetVars, bookVars, bulkVars, runs, db, plan_df, classify_log, nutrition_df, daily_totals>>

\* a cell that is absent, NaN or blank
CellSkip ==
    /\ InCells
    /\ ~Eligible
    /\ Advance
    /\ UNCHANGED <<planVars, sheetVars, bookVars, bulkVars, runs, db, plan_df, a_menus, existing_menus, nutrition_data,
                   classify_log, nutrition_df, daily_totals, a_pc>>

\* a cell naming a menu of existing_menus
CellKnown ==
    /\ InCells
    /\ Eligible
    /\ LET menu_name == Strip(CurRow.cells[CurType])
       IN /\ menu_name \in existing_menus
          /\ nutrition_data' =
                WithRecord(nutrition_data, a_menus, CurRow.DayCol, CurType, menu_name)
    /\ Advance
    /\ UNCHANGED <<planVars, sheetVars, bookVars, bulkVars, runs, db, plan_df, a_menus, existing_menus, classify_log,
                   nutrition_df, daily_totals, a_pc>>

\* existing_menus.add(menu_name)
RememberNothing(existing, menu_name) == existing
Remember(existing, menu_name) == existing \cup {menu_name}

\* a cell naming an unknown menu, lines 431-436: classify_menu answers,
\* add_menu inserts and commits, the name is noted
CellClassified ==
    /\ InCells
    /\ Eligible
    /\ LET menu_name == Strip(CurRow.cells[CurType])
       IN /\ menu_name \notin existing_menus
          /\ \E menu_info \in Responses :
               /\ classify_log' =
                     Append(classify_log,
                            [name |-> menu_name, outcome |-> "ok", info |-> menu_info])
               /\ db' = add_menu(db, menu_name, menu_info)
               /\ existing_menus' = Remember(existing_menus, menu_name)
    /\ a_pc' = "refresh"
    /\ UNCHANGED <<planVars, sheetVars, bookVars, bulkVars, runs, plan_df, a_menus,
                   nutrition_data, a_row, a_slot, nutrition_df, daily_totals>>

\* lines 437-454 after the insert: the store is read again as it is now, the
\* name is looked up in it and its record appended
CellRefresh ==
    /\ a_pc = "refresh"
    /\ a_menus' = get_all_menus(db)
    /\ LET menu_name == Strip(CurRow.cells[CurType])
       IN /\ menu_name # ""
          /\ nutrition_data' =
                WithRecord(nutrition_data, get_all_menus(db), CurRow.DayCol,
                           CurType, menu_name)
    /\ Advance
    /\ a_pc' = "cells"
    /\ UNCHANGED <<planVars, sheetVars, bookVars, bulkVars, runs, db, plan_df,
                   existing_menus, classify_log, nutrition_df, daily_totals>>

\* a cell naming an unknown menu: classify_menu raises, the cell is skipped
CellClassifyFails ==
    /\ InCells
    /\ Eligible
    /\ LET menu_name == Strip(CurRow.cells[CurType])
       IN /\ menu_name \notin existing_menus
          /\ classify_log' =
                Append(classify_log,
                       [name |-> menu_name, outcome |-> "classify_failed",
                        info |-> NoInfo])
    /\ Advance
    /\ UNCHANGED <<planVars, sheetVars, bookVars, bulkVars, runs, db, plan_df, a_menus, existing_menus, nutrition_data,
                   nutrition_df, daily_totals, a_pc>>

\* a cell naming an unknown menu: add_menu raises, the cell is skipped
CellInsertFails ==
    /\ InCells
    /\ Eligible
    /\ LET menu_name == Strip(CurRow.cells[CurType])
       IN /\ menu_name \notin existing_menus
          /\ classify_log' =
                Append(classify_log,
                       [name |-> menu_name, outcome |-> "insert_failed",
                        info |-> NoInfo])
    /\ Advance
    /\ UNCHANGED <<planVars, sheetVars, bookVars, bulkVars, runs, db, plan_df, a_menus, existing_menus, nutrition_data,
                   nutrition_df, daily_totals, a_pc>>

\* day_order
DayOrder(day) == IndexOf(Days, day) - 1

\* the order of sort_values(["DayCol order", "slot"]): the slot labels are
\* compared as strings
SortLess(r1, r2) ==
    \/ DayOrder(r1.DayCol) < DayOrder(r2.DayCol)
    \/ /\ DayOrder(r1.DayCol) = DayOrder(r2.DayCol)
       /\ IndexOf(LabelOrder, r1.slot) < IndexOf(LabelOrder, r2.slot)

\* r put behind the rows of a sorted frame that are not greater than it
InsertSorted(sorted, r) ==
    LET k == Cardinality({ i \in DOMAIN sorted : ~SortLess(r, sorted[i]) })
    IN SubSeq(sorted, 1, k) \o <<r>> \o SubSeq(sorted, k + 1, Len(sorted))

\* nutrition_df.sort_values([...]) (a stable sort)
RECURSIVE SortValues(_)
SortValues(df) ==
    IF df = <<>> THEN <<>>
    ELSE InsertSorted(SortValues(SubSeq(df, 1, Len(df) - 1)), df[Len(df)])

\* lines 456-461 on an empty nutrition_data: the frame has no DayCol column.
\* The KeyError leaves export_plan (line 331: the writer closes on a file
\* that holds the plan sheet only, no path is returned) and the page that
\* made the call (app.py 141-142, 364-365: st.error).
AnalyzeKeyError ==
    /\ a_pc = "cells"
    /\ a_row > Len(plan_df.rows)
    /\ nutrition_data = <<>>
    /\ a_pc' = "KeyError"
    /\ x_pc' = IF x_pc \in {"exporting", "analyzing"} THEN "raised" ELSE x_pc
    /\ UNCHANGED <<planVars, bookVars, bulkVars, runs, db, plan_df, a_menus, existing_menus, nutrition_data,
                   a_row, a_slot, classify_log, nutrition_df, daily_totals, sheet, df_t>>

\* lines 456-461: sort and return
AnalyzeReturn ==
    /\ a_pc = "cells"
    /\ a_row > Len(plan_df.rows)
    /\ nutrition_data # <<>>
    /\ nutrition_df' = SortValues(nutrition_data)
    /\ a_pc' = "returned"
    /\ UNCHANGED <<planVars, sheetVars, bookVars, bulkVars, runs, db, plan_df, a_menus, existing_menus, nutrition_data,
                   a_row, a_slot, classify_log, daily_totals>>

---------------------------------------------------------------------------
(* export_plan: the daily totals *)

\* the five summed columns
Nutrients == <<"calories", "protein", "fat", "carbs", "sodium">>

\* the weekday labels in the order groupby sorts its keys (as strings):
\* 금 < 목 < 수 < 월 < 화
GroupOrder == <<"Fri", "Thu", "Wed", "Mon", "Tue">>

\* the keys of groupby(DayCol): the weekdays that occur, sorted
GroupKeys(df) ==
    SelectSeq(GroupOrder, LAMBDA d : \E i \in DOMAIN df : df[i].DayCol = d)

\* "sum" of one column over the rows of one group
RECURSIVE GroupSum(_, _, _)
GroupSum(df, day, col) ==
    IF df = <<>> THEN 0
    ELSE GroupSum(SubSeq(df, 1, Len(df) - 1), day, col)
           + (IF df[Len(df)].DayCol = day THEN df[Len(df)][col] ELSE 0)

\* one totals row
TotalsRow(df, day) ==
    [DayCol |-> day, calories |-> GroupSum(df, day, "calories"),
     protein |-> GroupSum(df, day, "protein"), fat |-> GroupSum(df, day, "fat"),
     carbs |-> GroupSum(df, day, "carbs"), sodium |-> GroupSum(df, day, "sodium")]

\* nutrition_df.groupby(DayCol).agg({... "sum"}).reset_index()
DailyTotalsAllDays(df) == [k \in DOMAIN GroupOrder |-> TotalsRow(df, GroupOrder[k])]
DailyTotals(df) ==
    [k \in DOMAIN GroupKeys(df) |-> TotalsRow(df, GroupKeys(df)[k])]

\* lines 331-350, after the analyze_menu_plan call of line 331 has returned
\* a non-empty frame: the totals are computed, the writer saves the file
\* with its three sheets and the path is returned
ExportTotals ==
    /\ x_pc = "exporting"
    /\ a_pc = "returned"
    /\ nutrition_df # <<>>
    /\ daily_totals' = DailyTotals(nutrition_df)
    /\ a_pc' = "exported"
    /\ x_pc' = "sheet"
    /\ UNCHANGED <<planVars, bookVars, bulkVars, runs, db, plan_df, a_menus, existing_menus, nutrition_data,
                   a_row, a_slot, classify_log, nutrition_df, sheet, df_t>>

---------------------------------------------------------------------------
(* export_plan's plan sheet and the menu-plan import *)

\* days (export_plan)
ExportDays == <<"Mon", "Tue", "Wed", "Thu", "Fri">>

\* row_order (export_plan and the import)
row_order == <<"Rice", "Soup", "Main", "Side1", "Side2", "Other">>

\* bound on the non-empty cells of the plans exported
MaxPlanCells == 1

\* the texts a non-empty cell of an exported plan may hold
PlanValues == { Txt("A"), Padded("B") }

\* the column sets of the plans exported
PlanColumnChoices == { Range(row_order), Range(row_order) \ {"Other"} }

\* the coordinates of the cells that vary (the Rice column holds Rice)
Coords(cols) == Range(ExportDays) \X (cols \ {"Rice"})

\* the plans with one row per weekday, Mon..Fri, over the columns cols: at
\* most MaxPlanCells cells hold a menu, every other cell is ""
WeeklyPlansOver(cols) ==
    { [columns |-> cols,
       rows |-> [i \in DOMAIN ExportDays |->
                   [DayCol |-> ExportDays[i],
                    cells |-> [c \in cols |->
                                 IF c = "Rice" THEN Txt(Rice)
                                 ELSE IF <<ExportDays[i], c>> \in DOMAIN f
                                      THEN f[<<ExportDays[i], c>>]
                                      ELSE Txt("")]]]] :
        f \in UNION { [P -> PlanValues] :
                        P \in UNION { { Range(ps) : ps \in [1..n -> Coords(cols)] } :
                                        n \in 0..MaxPlanCells } } }

\* plan_df.loc[plan_df["DayCol"] == day, row_name]: the column's values in
\* the rows of that day
LocDay(plan, day, row_name) ==
    LET hits == SelectSeq(plan.rows, LAMBDA r : r.DayCol = day)
    IN [k \in DOMAIN hits |-> hits[k].cells[row_name]]

\* lines 303-309: the value put under a weekday for one row of the sheet
ExportCellFirstRow(plan, day, row_name) ==
    IF row_name \in plan.columns
    THEN plan.rows[1].cells[row_name]
    ELSE Txt("")
ExportCell(plan, day, row_name) ==
    IF row_name \in plan.columns
    THEN LET val == LocDay(plan, day, row_name)
         IN IF val # <<>> THEN val[1] ELSE Txt("")
    ELSE Txt("")

\* to_excel followed by parse: an empty string is written as an empty cell,
\* and an empty cell is read as NaN
ThroughExcel(v) == IF v.na \/ (~v.pad /\ v.core = "") THEN NaN ELSE v

\* lines 299-312 and the file read back by xl.parse(sheet_name, index_col=0):
\* the rows are row_order, the columns the weekdays
ExportedSheet(plan) ==
    [index |-> [i \in DOMAIN row_order |-> Txt(row_order[i])],
     columns |-> [j \in DOMAIN ExportDays |-> Txt(ExportDays[j])],
     cells |-> [i \in DOMAIN row_order |->
                  [j \in DOMAIN ExportDays |->
                     ThroughExcel(ExportCell(plan, ExportDays[j], row_order[i]))]]]

\* the import with blank cells filled with the empty string
ImportedPlanFillNa(df) ==
    LET index == [i \in DOMAIN df.index |-> Strip(df.index[i])]
        columns == [j \in DOMAIN df.columns |-> Strip(df.columns[j])]
        exist_rows == SelectSeq(row_order, LAMBDA r : r \in Range(index))
        weekdays == SelectSeq([j \in DOMAIN columns |-> j],
                              LAMBDA j : columns[j] \in Range(ExportDays))
    IN [columns |-> Range(exist_rows),
        rows |-> [k \in DOMAIN weekdays |->
                    [DayCol |-> columns[weekdays[k]],
                     cells |-> [r \in Range(exist_rows) |->
                                  LET v == df.cells[IndexOf(index, r)][weekdays[k]]
                                  IN IF v.na THEN Txt("") ELSE v]]]]

\* app.py lines 338-344: strip the labels, keep the rows of row_order,
\* transpose, keep the weekday rows
ImportedPlan(df) ==
    LET index == [i \in DOMAIN df.index |-> Strip(df.index[i])]
        columns == [j \in DOMAIN df.columns |-> Strip(df.columns[j])]
        exist_rows == SelectSeq(row_order, LAMBDA r : r \in Range(index))
        weekdays == SelectSeq([j \in DOMAIN columns |-> j],
                              LAMBDA j : columns[j] \in Range(ExportDays))
    IN [columns |-> Range(exist_rows),
        rows |-> [k \in DOMAIN weekdays |->
                    [DayCol |-> columns[weekdays[k]],
                     cells |-> [r \in Range(exist_rows) |->
                                  df.cells[IndexOf(index, r)][weekdays[k]]]]]]

\* export_plan is entered, lines 285-331: called on a plan, or by the import
\* page on df_t once its own analysis has returned (app.py 355-356).  The
\* plan sheet goes to the writer and analyze_menu_plan(plan_df) is entered;
\* the file is saved only when the with block is left.
ExportSheet ==
    /\ \/ x_pc = "plan" /\ a_pc = "idle"
       \/ x_pc = "analyzing" /\ a_pc = "returned"
    /\ sheet' = ExportedSheet(plan_df)
    /\ a_pc' = "start"
    /\ x_pc' = "exporting"
    /\ UNCHANGED <<planVars, bookVars, bulkVars, runs, df_t, db, plan_df, a_menus,
                   existing_menus, nutrition_data, a_row, a_slot, classify_log,
                   nutrition_df, daily_totals>>

\* the sheet names of the file export_plan saves when the file name holds
\* neither meal label (lines 297, 332, 348): 점심, 영양 정보, 일일 영양소 합계
ExportedSheetNames == <<Txt("Lunch"), Txt("Nutrition"), Txt("Totals")>>

\* the file export_plan returned is uploaded on the import page
\* (app.py 322-326)
UploadExported ==
    /\ x_pc = "sheet"
    /\ sheet_names' = ExportedSheetNames
    /\ upload' = sheet
    /\ x_pc' = "uploaded"
    /\ UNCHANGED <<planVars, analyzeVars, bulkVars, runs, sheet, df_t, sheet_name>>

\* bound on the rows of the frames totalled
MaxRecords == 3

\* the frames analyze_menu_plan can return: at most one record per weekday
\* and slot, each built from a row of the store, sorted
ReturnedFrames(n) ==
    { [i \in 1..n |-> NutritionRecord(ks[i][1], ks[i][2], ms[i].name, <<ms[i]>>)] :
        ks \in { s \in [1..n -> Range(Days) \X Range(MealTypes)] :
                   \A i \in 1..(n - 1) :
                     SortLess([DayCol |-> s[i][1], slot |-> s[i][2]],
                              [DayCol |-> s[i + 1][1], slot |-> s[i + 1][2]]) },
        ms \in [1..n -> { StoreRows[1], StoreRows[2] }] }

---------------------------------------------------------------------------
(* The menu-plan import page: app.py lines 326-365 *)

\* sheet_name = None
NoName == [na |-> TRUE, pad |-> FALSE, core |-> ""]

\* the two sheet names looked for (Lunch for 점심, Dinner for 저녁)
SheetLabels == {"Lunch", "Dinner"}

\* bounds on the uploaded workbook: sheets, rows and columns of a sheet,
\* cells of a sheet that hold a text
MaxSheets == 2
MaxSheetRows == 2
MaxSheetCols == 2
MaxSheetCells == 1

\* the names a sheet of an uploaded workbook may have
SheetNameValues == { Padded("Dinner"), Txt("X"), Txt("Y") }

\* xl.sheet_names of the uploaded workbooks (a workbook has a sheet, and no
\* two of its sheets have the same name)
Workbooks(n) ==
    { w \in [1..n -> SheetNameValues] : \A i, j \in 1..n : w[i] = w[j] => i = j }

\* the row labels (first column) and the column labels (first row) of the
\* uploaded sheets: the first labels of these lists
RowLabelPool == <<Padded("Soup"), Txt("Note"), Txt("Main"), Txt("Side1")>>
ColLabelPools ==
    { <<Txt("Sat"), Padded("Mon"), Txt("Tue"), Txt("Wed")>>,
      <<Padded("Fri"), Txt("Thu"), Txt("Sun"), Txt("Wed")>> }

\* the texts a filled cell of an uploaded sheet may hold
SheetValues == { Padded("A"), Txt("X"), Padded("") }

\* the sheets as xl.parse(sheet_name, index_col=0) reads them: nr rows and nc
\* columns, at most MaxSheetCells cells hold a text, every other cell is
\* blank and read as NaN
UploadedSheets(nr, nc, pool) ==
    { [index |-> SubSeq(RowLabelPool, 1, nr),
       columns |-> SubSeq(pool, 1, nc),
       cells |-> [i \in 1..nr |->
                    [j \in 1..nc |->
                       IF <<i, j>> \in DOMAIN f THEN f[<<i, j>>] ELSE NaN]]] :
        f \in UNION { [P -> SheetValues] :
                        P \in UNION { { Range(ps) : ps \in [1..n -> (1..nr) \X (1..nc)] } :
                                        n \in 0..MaxSheetCells } } }

\* lines 328-333: the first sheet name that is one of the labels once
\* stripped, None when there is none
FindSheetOrFirst(names) == names[1]
FindSheet(names) ==
    LET hits == SelectSeq(names, LAMBDA s : Strip(s) \in SheetLabels)
    IN IF hits # <<>> THEN hits[1] ELSE NoName

\* "not sheet_name"
Falsy(x) == x.na \/ (~x.pad /\ x.core = "")

\* lines 326-336 on a workbook without a recognised sheet: st.error
ImportNoSheet ==
    /\ x_pc = "uploaded"
    /\ Falsy(FindSheet(sheet_names))
    /\ sheet_name' = FindSheet(sheet_names)
    /\ x_pc' = "no_sheet"
    /\ UNCHANGED <<planVars, analyzeVars, bulkVars, runs, sheet, df_t, sheet_names, upload>>

\* lines 326-346 on a workbook with a recognised sheet: parse, normalise and
\* show the preview
ImportPreview ==
    /\ x_pc = "uploaded"
    /\ ~Falsy(FindSheet(sheet_names))
    /\ sheet_name' = FindSheet(sheet_names)
    /\ df_t' = ImportedPlan(upload)
    /\ x_pc' = "preview"
    /\ UNCHANGED <<planVars, analyzeVars, bulkVars, runs, sheet, sheet_names, upload>>

\* lines 348-351: the analysis button, analyze_menu_plan(df_t) is entered
ImportAnalyze ==
    /\ x_pc = "preview"
    /\ a_pc = "idle"
    /\ plan_df' = df_t
    /\ a_pc' = "start"
    /\ x_pc' = "analyzing"
    /\ UNCHANGED <<planVars, bookVars, bulkVars, runs, sheet, df_t, db, a_menus,
                   existing_menus, nutrition_data, a_row, a_slot, classify_log,
                   nutrition_df, daily_totals>>

---------------------------------------------------------------------------
(* analyze_menu_plan run by several sessions at once on one store *)

\* the numbers of runs started together: one alone, or two
RunCounts == {1, 2}

\* bound on the filled columns of the one-row plans the runs analyse, those
\* of the runs started together summed
MaxRunCells == 3

\* the cells of those plans
RunValues == { Padded("A"), Txt("B") }

\* the plans of the runs: one row (Mon), the first n columns of meal_types
RunPlans(n) ==
    { [columns |-> { MealTypes[k] : k \in 1..n },
       rows |-> << [DayCol |-> "Mon",
                    cells |-> [c \in { MealTypes[k] : k \in 1..n } |->
                                 f[IndexOf(MealTypes, c)]]] >>] :
        f \in [1..n -> RunValues] }

\* the columns of the plans of the runs, summed
RECURSIVE SumSizes(_)
SumSizes(z) == IF z = <<>> THEN 0 ELSE z[Len(z)] + SumSizes(SubSeq(z, 1, Len(z) - 1))

\* a run that has not read the store yet
NewRun(plan) ==
    [plan |-> plan, menus |-> <<>>, existing |-> {}, data |-> <<>>, row |-> 0,
     slot |-> 0, info |-> NoInfo, inserted |-> <<>>, pc |-> "start"]

\* the cell a run is at, and whether it passes the if of lines 425-429
RunType(r) == MealTypes[r.slot]
RunRow(r) == r.plan.rows[r.row]
RunInCells(r) == r.pc = "cells" /\ r.row <= Len(r.plan.rows)
RunEligible(r) ==
    /\ RunType(r) \in r.plan.columns
    /\ NotNa(RunRow(r).cells[RunType(r)])
    /\ Strip(RunRow(r).cells[RunType(r)]) # ""
RunName(r) == Strip(RunRow(r).cells[RunType(r)])

\* the run moved to the next iteration of the nested loops
Advanced(r) ==
    IF r.slot < Len(MealTypes)
    THEN [r EXCEPT !.slot = r.slot + 1]
    ELSE [r EXCEPT !.slot = 1, !.row = r.row + 1]

\* lines 417-421 in one run
RaceBegin ==
    \E p \in DOMAIN runs :
        /\ runs[p].pc = "start"
        /\ runs' = [runs EXCEPT ![p] =
                      [@ EXCEPT !.menus = get_all_menus(db),
                                !.existing = { m.name : m \in Range(get_all_menus(db)) },
                                !.row = 1, !.slot = 1, !.pc = "cells"]]
        /\ UNCHANGED <<planVars, analyzeVars, sheetVars, bookVars, bulkVars>>

\* a cell that is absent, NaN or blank
RaceCellSkip ==
    \E p \in DOMAIN runs :
        /\ RunInCells(runs[p])
        /\ ~RunEligible(runs[p])
        /\ runs' = [runs EXCEPT ![p] = Advanced(@)]
        /\ UNCHANGED <<planVars, analyzeVars, sheetVars, bookVars, bulkVars>>

\* a cell naming a menu of the run's existing_menus
RaceCellKnown ==
    \E p \in DOMAIN runs :
        LET r == runs[p] IN
        /\ RunInCells(r)
        /\ RunEligible(r)
        /\ RunName(r) \in r.existing
        /\ runs' = [runs EXCEPT ![p] =
                      Advanced([r EXCEPT !.data =
                                  WithRecord(r.data, r.menus, RunRow(r).DayCol,
                                             RunType(r), RunName(r))])]
        /\ UNCHANGED <<planVars, analyzeVars, sheetVars, bookVars, bulkVars>>

\* a cell naming a menu unknown to the run: classify_menu answers
RaceClassify ==
    \E p \in DOMAIN runs :
        LET r == runs[p] IN
        /\ RunInCells(r)
        /\ RunEligible(r)
        /\ RunName(r) \notin r.existing
        /\ \E menu_info \in Responses :
              runs' = [runs EXCEPT ![p] = [r EXCEPT !.info = menu_info, !.pc = "insert"]]
        /\ UNCHANGED <<planVars, analyzeVars, sheetVars, bookVars, bulkVars>>

\* classify_menu raises: the cell is skipped
RaceClassifyFails ==
    \E p \in DOMAIN runs :
        LET r == runs[p] IN
        /\ RunInCells(r)
        /\ RunEligible(r)
        /\ RunName(r) \notin r.existing
        /\ runs' = [runs EXCEPT ![p] = Advanced(r)]
        /\ UNCHANGED <<planVars, analyzeVars, sheetVars, bookVars, bulkVars>>

\* lines 435-436: add_menu inserts and commits on its own connection, the
\* run notes the name; nothing is locked until the refresh of line 437
RaceInsert ==
    \E p \in DOMAIN runs :
        LET r == runs[p] IN
        /\ r.pc = "insert"
        /\ db' = add_menu(db, RunName(r), r.info)
        /\ runs' = [runs EXCEPT ![p] =
                      [r EXCEPT !.existing = Remember(r.existing, RunName(r)),
                                !.inserted = Append(r.inserted, RunName(r)),
                                !.info = NoInfo,
                                !.pc = "refresh"]]
        /\ UNCHANGED <<planVars, sheetVars, bookVars, bulkVars, plan_df, a_menus,
                       existing_menus, nutrition_data, a_row, a_slot, classify_log,
                       nutrition_df, daily_totals, a_pc>>

\* lines 437-454: the run reads the store again, whatever the other runs
\* have committed since its insert, and appends the record of the name
RaceRefresh ==
    \E p \in DOMAIN runs :
        LET r == runs[p] IN
        /\ r.pc = "refresh"
        /\ runs' = [runs EXCEPT ![p] =
                      Advanced([r EXCEPT
                                  !.menus = get_all_menus(db),
                                  !.data = WithRecord(r.data, get_all_menus(db),
                                                      RunRow(r).DayCol, RunType(r),
                                                      RunName(r)),
                                  !.pc = "cells"])]
        /\ UNCHANGED <<planVars, analyzeVars, sheetVars, bookVars, bulkVars>>

\* add_menu raises: the cell is skipped
RaceInsertFails ==
    \E p \in DOMAIN runs :
        LET r == runs[p] IN
        /\ r.pc = "insert"
        /\ runs' = [runs EXCEPT ![p] = Advanced([r EXCEPT !.info = NoInfo, !.pc = "cells"])]
        /\ UNCHANGED <<planVars, analyzeVars, sheetVars, bookVars, bulkVars>>

\* lines 456-461: the run ends, with KeyError when it has no record
RaceEnd ==
    \E p \in DOMAIN runs :
        LET r == runs[p] IN
        /\ r.pc = "cells"
        /\ r.row > Len(r.plan.rows)
        /\ runs' = [runs EXCEPT ![p] =
                      IF r.data = <<>>
                      THEN [r EXCEPT !.pc = "KeyError"]
                      ELSE [r EXCEPT !.data = SortValues(r.data), !.pc = "returned"]]
        /\ UNCHANGED <<planVars, analyzeVars, sheetVars, bookVars, bulkVars>>

---------------------------------------------------------------------------
(* bulk_add: meal_ai.py lines 166-171, called from app.py 158-167, 197-207 *)

\* bounds: the length of a list handed to bulk_add, and the classify_menu
\* calls of all the bulk_add calls together
MaxList == 2
MaxClassify == 3

\* the names typed or uploaded on the menu page
BulkNames == {"A", "B"}

\* the lists of n names: bulk_add is called with n >= 1 ("if menu_list":
\* never the empty list)
MenuLists(n) == [1..n -> BulkNames]

\* the button: bulk_add(menu_list) is entered
BulkCall ==
    /\ b_pc \in {"idle", "done", "raised"}
    /\ \E n \in 1..MaxList :
          /\ Len(classify_log) + n <= MaxClassify
          /\ menu_list' \in MenuLists(n)
    /\ b_i' = 1
    /\ b_pc' = "loop"
    /\ UNCHANGED <<planVars, analyzeVars, sheetVars, bookVars, runs, edits, del_names>>

\* one iteration: classify_menu(name) answers, add_menu inserts the row
BulkAdd ==
    /\ b_pc = "loop"
    /\ b_i <= Len(menu_list)
    /\ \E menu_info \in Responses :
          /\ classify_log' =
                Append(classify_log,
                       [name |-> menu_list[b_i], outcome |-> "ok", info |-> menu_info])
          /\ db' = add_menu(db, menu_list[b_i], menu_info)
    /\ b_i' = b_i + 1
    /\ UNCHANGED <<planVars, sheetVars, bookVars, runs, menu_list, b_pc, edits, del_names, plan_df,
                   a_menus, existing_menus, nutrition_data, a_row, a_slot,
                   nutrition_df, daily_totals, a_pc>>

\* one iteration in which classify_menu or add_menu raises: bulk_add is left
\* with the exception, the rows inserted before stay
BulkRaise ==
    /\ b_pc = "loop"
    /\ b_i <= Len(menu_list)
    /\ \E outcome \in {"classify_failed", "insert_failed"} :
          classify_log' =
             Append(classify_log,
                    [name |-> menu_list[b_i], outcome |-> outcome, info |-> NoInfo])
    /\ b_pc' = "raised"
    /\ UNCHANGED <<planVars, sheetVars, bookVars, runs, menu_list, b_i, edits, del_names, db,
                   plan_df,
                   a_menus, existing_menus, nutrition_data, a_row, a_slot,
                   nutrition_df, daily_totals, a_pc>>

\* the list is exhausted: bulk_add returns
BulkReturn ==
    /\ b_pc = "loop"
    /\ b_i > Len(menu_list)
    /\ b_pc' = "done"
    /\ UNCHANGED <<planVars, analyzeVars, sheetVars, bookVars, runs, menu_list, b_i, edits, del_names>>

---------------------------------------------------------------------------
(* The other writers of the menus table: delete_menu, delete_menus,        *)
(* update_menu_nutrition and update_menu_category of meal_ai.py; the menu  *)
(* management tab (app.py 247-265) calls the two updates for every row of  *)
(* its table when the edits are saved                                      *)

\* bound on the delete and update calls of a behaviour
MaxEdits == 2

\* DELETE FROM menus WHERE name = ?: every row of that name goes
delete_menu(store, menu_name) ==
    SelectSeq(store, LAMBDA m : m.name # menu_name)

\* nutrition.get(key, 0) (the keys 칼로리, 단백질, 지방, 탄수화물, 나트륨 are
\* written as the names of the columns they set)
Get(nutrition, key) == IF key \in DOMAIN nutrition THEN nutrition[key] ELSE 0

\* UPDATE menus SET calories, protein, fat, carbs, sodium WHERE name = ?:
\* every row of that name is rewritten, a missing key writes 0
update_menu_nutrition(store, menu_name, nutrition) ==
    [i \in DOMAIN store |->
        IF store[i].name = menu_name
        THEN [store[i] EXCEPT !.calories = Get(nutrition, "calories"),
                              !.protein = Get(nutrition, "protein"),
                              !.fat = Get(nutrition, "fat"),
                              !.carbs = Get(nutrition, "carbs"),
                              !.sodium = Get(nutrition, "sodium")]
        ELSE store[i]]

\* UPDATE menus SET category = ? WHERE name = ?
update_menu_category(store, menu_name, category) ==
    [i \in DOMAIN store |->
        IF store[i].name = menu_name
        THEN [store[i] EXCEPT !.category = category]
        ELSE store[i]]

\* the dictionaries update_menu_nutrition is called with: all five keys (as
\* the management tab builds it), or calories alone
NutritionEdits ==
    { [calories |-> 1, protein |-> 2, fat |-> 3, carbs |-> 4, sodium |-> 5],
      [calories |-> 9] }

\* the categories update_menu_category is called with
CategoryEdits == {"Side", "Other"}

\* what a delete or update call leaves alone
EditFrame ==
    UNCHANGED <<planVars, sheetVars, bookVars, runs, menu_list, b_i, b_pc, plan_df,
                a_menus, existing_menus, nutrition_data, a_row, a_slot,
                classify_log, nutrition_df, daily_totals, a_pc>>

\* delete_menu(menu_name)
DeleteMenu ==
    /\ edits < MaxEdits
    /\ \E menu_name \in BulkNames : db' = delete_menu(db, menu_name)
    /\ edits' = edits + 1
    /\ UNCHANGED del_names
    /\ EditFrame

\* delete_menus(menu_names) is entered (on an empty list it returns at once)
DeleteMenus ==
    /\ edits < MaxEdits
    /\ del_names = <<>>
    /\ \E n \in 0..MaxList : del_names' \in MenuLists(n)
    /\ edits' = edits + 1
    /\ UNCHANGED db
    /\ EditFrame

\* one iteration of its loop: delete_menu(name) deletes and commits; the
\* other writers of the table can commit between two iterations
DeleteMenusNext ==
    /\ del_names # <<>>
    /\ db' = delete_menu(db, Head(del_names))
    /\ del_names' = Tail(del_names)
    /\ UNCHANGED edits
    /\ EditFrame

\* update_menu_nutrition(menu_name, nutrition)
UpdateMenuNutrition ==
    /\ edits < MaxEdits
    /\ \E menu_name \in BulkNames, nutrition \in NutritionEdits :
          db' = update_menu_nutrition(db, menu_name, nutrition)
    /\ edits' = edits + 1
    /\ UNCHANGED del_names
    /\ EditFrame

\* update_menu_category(menu_name, category)
UpdateMenuCategory ==
    /\ edits < MaxEdits
    /\ \E menu_name \in BulkNames, category \in CategoryEdits :
          db' = update_menu_category(db, menu_name, category)
    /\ edits' = edits + 1
    /\ UNCHANGED del_names
    /\ EditFrame

---------------------------------------------------------------------------
(* Specifications *)

PlanIdle ==
    /\ menus = <<>>
    /\ used_menus = {}
    /\ plan_len = 0
    /\ day_plan = NoRow
    /\ pc = "idle"

AnalyzeLocalsInit ==
    /\ a_menus = <<>>
    /\ existing_menus = {}
    /\ nutrition_data = <<>>
    /\ a_row = 0
    /\ a_slot = 0
    /\ classify_log = <<>>
    /\ nutrition_df = <<>>
    /\ daily_totals = <<>>

NoSheet == [index |-> <<>>, columns |-> <<>>, cells |-> <<>>]
NoPlan == [columns |-> {}, rows |-> <<>>]

SheetIdle ==
    /\ sheet = NoSheet
    /\ df_t = NoPlan
    /\ x_pc = "idle"

BookIdle ==
    /\ sheet_names = <<>>
    /\ sheet_name = NoName
    /\ upload = NoSheet

BulkIdle ==
    /\ menu_list = <<>>
    /\ b_i = 0
    /\ b_pc = "idle"
    /\ edits = 0
    /\ del_names = <<>>

RaceIdle == runs = <<>>

OthersIdle == BookIdle /\ BulkIdle /\ RaceIdle

AnalyzeIdle ==
    /\ db = <<>>
    /\ plan_df = NoPlan
    /\ AnalyzeLocalsInit
    /\ a_pc = "idle"

\* make_plan on every catalog of PlanCatalogs
InitPlan ==
    /\ OthersIdle
    /\ menus \in PlanCatalogs
    /\ used_menus = {}
    /\ plan_len = 0
    /\ day_plan = NoRow
    /\ pc = "loop"
    /\ AnalyzeIdle
    /\ SheetIdle

NextPlan == PlanDay \/ PlanDayRaise \/ PlanReturn

SpecPlan == InitPlan /\ [][NextPlan]_vars

\* analyze_menu_plan called on every plan and store
InitAnalyze ==
    /\ OthersIdle
    /\ PlanIdle
    /\ db \in Stores
    /\ \E n \in 0..MaxRows, cols \in ColumnChoices : plan_df \in PlansOf(n, cols)
    /\ AnalyzeLocalsInit
    /\ a_pc = "start"
    /\ SheetIdle

NextAnalyze ==
    \/ AnalyzeBegin
    \/ CellSkip
    \/ CellKnown
    \/ CellClassified
    \/ CellRefresh
    \/ CellClassifyFails
    \/ CellInsertFails
    \/ AnalyzeKeyError
    \/ AnalyzeReturn

SpecAnalyze == InitAnalyze /\ [][NextAnalyze]_vars

\* export_plan's totals on every frame its analyze_menu_plan call can return:
\* export_plan is at line 331, the call has returned (the plan and its sheet,
\* which the totals do not read, are left empty)
InitTotals ==
    /\ OthersIdle
    /\ PlanIdle
    /\ sheet = NoSheet
    /\ df_t = NoPlan
    /\ x_pc = "exporting"
    /\ db = <<>>
    /\ plan_df = NoPlan
    /\ a_menus = <<>>
    /\ existing_menus = {}
    /\ nutrition_data = <<>>
    /\ a_row = 0
    /\ a_slot = 0
    /\ classify_log = <<>>
    /\ \E n \in 1..MaxRecords : nutrition_df \in ReturnedFrames(n)
    /\ daily_totals = <<>>
    /\ a_pc = "returned"

NextTotals == ExportTotals

SpecTotals == InitTotals /\ [][NextTotals]_vars

\* export_plan called on a weekly plan, the file it returns uploaded on the
\* import page and previewed
InitRoundTrip ==
    /\ OthersIdle
    /\ PlanIdle
    /\ db \in Stores
    /\ \E cols \in PlanColumnChoices : plan_df \in WeeklyPlansOver(cols)
    /\ AnalyzeLocalsInit
    /\ a_pc = "idle"
    /\ sheet = NoSheet
    /\ df_t = NoPlan
    /\ x_pc = "plan"

NextRoundTrip ==
    \/ ExportSheet
    \/ AnalyzeBegin
    \/ CellSkip
    \/ CellKnown
    \/ CellClassified
    \/ CellRefresh
    \/ CellClassifyFails
    \/ CellInsertFails
    \/ AnalyzeKeyError
    \/ AnalyzeReturn
    \/ ExportTotals
    \/ UploadExported
    \/ ImportPreview

SpecRoundTrip == InitRoundTrip /\ [][NextRoundTrip]_vars

\* a workbook uploaded on the import page, previewed, analysed and exported
\* with its analysis
InitImport ==
    /\ PlanIdle
    /\ BulkIdle
    /\ RaceIdle
    /\ db \in Stores
    /\ plan_df = NoPlan
    /\ AnalyzeLocalsInit
    /\ a_pc = "idle"
    /\ \E n \in 1..MaxSheets : sheet_names \in Workbooks(n)
    /\ sheet_name = NoName
    /\ \E nr \in 1..MaxSheetRows, nc \in 1..MaxSheetCols, pool \in ColLabelPools :
          upload \in UploadedSheets(nr, nc, pool)
    /\ sheet = NoSheet
    /\ df_t = NoPlan
    /\ x_pc = "uploaded"

NextImport ==
    \/ ImportNoSheet
    \/ ImportPreview
    \/ ImportAnalyze
    \/ AnalyzeBegin
    \/ CellSkip
    \/ CellKnown
    \/ CellClassified
    \/ CellRefresh
    \/ CellClassifyFails
    \/ CellInsertFails
    \/ AnalyzeKeyError
    \/ AnalyzeReturn
    \/ ExportSheet
    \/ ExportTotals

SpecImport == InitImport /\ [][NextImport]_vars

\* bulk_add called any number of times on a store with unique names, with
\* the deletes and updates of the table's other writers in between
InitBulk ==
    /\ PlanIdle
    /\ SheetIdle
    /\ BookIdle
    /\ RaceIdle
    /\ db \in Stores
    /\ plan_df = NoPlan
    /\ AnalyzeLocalsInit
    /\ a_pc = "idle"
    /\ BulkIdle

NextBulk ==
    \/ BulkCall
    \/ BulkAdd
    \/ BulkRaise
    \/ BulkReturn
    \/ DeleteMenu
    \/ DeleteMenus
    \/ DeleteMenusNext
    \/ UpdateMenuNutrition
    \/ UpdateMenuCategory

SpecBulk == InitBulk /\ [][NextBulk]_vars

\* one run alone, or two runs interleaved, on one store
InitRace ==
    /\ PlanIdle
    /\ SheetIdle
    /\ BookIdle
    /\ BulkIdle
    /\ db \in Stores
    /\ plan_df = NoPlan
    /\ AnalyzeLocalsInit
    /\ a_pc = "idle"
    /\ \E k \in RunCounts :
          \E sizes \in { z \in [1..k -> 1..MaxRunCells] :
                            SumSizes(z) <= MaxRunCells } :
             \E plans \in { f \in [1..k -> UNION { RunPlans(n) : n \in 1..MaxRunCells }] :
                               \A p \in 1..k : f[p] \in RunPlans(sizes[p]) } :
                runs = [p \in 1..k |-> NewRun(plans[p])]

NextRace ==
    \/ RaceBegin
    \/ RaceCellSkip
    \/ RaceCellKnown
    \/ RaceClassify
    \/ RaceClassifyFails
    \/ RaceInsert
    \/ RaceRefresh
    \/ RaceInsertFails
    \/ RaceEnd

SpecRace == InitRace /\ [][NextRace]_vars

---------------------------------------------------------------------------
(* Properties of make_plan, checked under SpecPlan *)

\* every mandatory category has at least one item in the catalog
HasAll == \A cat \in Mandatory : CategoryRows(menus, cat) # <<>>

\* the number of Side items, and their names
SideCount == Len(CategoryRows(menus, "Side"))
SideNameSet == { m.name : m \in Range(CategoryRows(menus, "Side")) }

\* a day row has been appended
RowBuilt == plan_len > 0

\* C1: with at least one Soup, one Main and one Side item, make_plan does
\* not raise, appends the rows in the order Mon..Fri, each with a non-empty
\* Rice, Soup and Main, and returns all five of them.
C1_ReturnsFiveRows ==
    HasAll =>
        /\ pc # "ValueError"
        /\ RowBuilt =>
              /\ day_plan.DayCol = Days[plan_len]
              /\ day_plan.Rice # ""
              /\ day_plan.Soup # ""
              /\ day_plan.Main # ""
        /\ pc = "returned" => plan_len = Len(Days)

\* C2: with exactly one Side item (and a Soup and a Main), make_plan does
\* not raise and every row has that item as Side1 and an empty Side2.
C2_OneSideLeavesSide2Empty ==
    (SideCount = 1 /\ HasAll) =>
        /\ pc # "ValueError"
        /\ RowBuilt =>
              /\ day_plan.Side1 = CategoryRows(menus, "Side")[1].name
              /\ day_plan.Side2 = ""

\* C3: with at least two distinct Side items (and a Soup and a Main), every
\* day gets a row, and Side1 differs from Side2 in it, also on a day whose
\* unused Side candidates are down to one.
C3_SidesDiffer ==
    (Cardinality(SideNameSet) >= 2 /\ HasAll) =>
        /\ pc # "ValueError"
        /\ RowBuilt => day_plan.Side1 # day_plan.Side2

\* C4: with a mandatory category (Soup, Main or Side) empty, make_plan ends
\* in the dedicated EmptyCatalogError and returns no plan.
C4_EndsInEmptyCatalogError ==
    (~HasAll /\ pc # "loop") => pc = "EmptyCatalogError"


---------------------------------------------------------------------------
(* Properties of analyze_menu_plan, checked under SpecAnalyze *)

\* the store as it was when the run began: add_menu only appends
OkCount == Cardinality({ k \in DOMAIN classify_log : classify_log[k].outcome = "ok" })
InitialDb == SubSeq(db, 1, Len(db) - OkCount)
KnownNames == { m.name : m \in Range(InitialDb) }

\* the cells of the five analysed slots that are non-null and non-blank
EligibleCells ==
    { ic \in (DOMAIN plan_df.rows) \X (Range(MealTypes) \cap plan_df.columns) :
        /\ NotNa(plan_df.rows[ic[1]].cells[ic[2]])
        /\ Strip(plan_df.rows[ic[1]].cells[ic[2]]) # "" }
NameAt(ic) == Strip(plan_df.rows[ic[1]].cells[ic[2]])

\* the names the plan uses that the store did not hold
UnknownNames == { NameAt(ic) : ic \in EligibleCells } \ KnownNames

\* the classify_menu calls made for one name
CallsFor(x) == Cardinality({ k \in DOMAIN classify_log : classify_log[k].name = x })

AnalyzeEnded == a_pc \in {"returned", "KeyError", "exported"}

\* C5: a run in which a classification or an insert failed skips that cell
\* and still returns; it does not end in an exception, also when the failed
\* cell was the only one.
C5_FailedCellIsSkipped ==
    (\E k \in DOMAIN classify_log : classify_log[k].outcome # "ok") =>
        a_pc # "KeyError"

\* C6: on a plan whose non-blank cells all name menus of the store, the run
\* never calls classify_menu, never inserts, does not raise, and returns
\* exactly one record per non-blank cell of the five slots (none when there
\* is no such cell).
C6_KnownPlanOneRecordPerCell ==
    (\A ic \in EligibleCells : NameAt(ic) \in KnownNames) =>
        /\ classify_log = <<>>
        /\ db = InitialDb
        /\ a_pc # "KeyError"
        /\ a_pc \in {"returned", "exported"} =>
              /\ Len(nutrition_df) = Cardinality(EligibleCells)
              /\ \A ic \in EligibleCells :
                    \E i \in DOMAIN nutrition_df :
                       /\ nutrition_df[i].DayCol = plan_df.rows[ic[1]].DayCol
                       /\ nutrition_df[i].slot = ic[2]
                       /\ nutrition_df[i].menu = NameAt(ic)

\* C7: on a plan with exactly one unknown name, a finished run has called
\* classify_menu exactly once for it, and the records of that name carry the
\* five nutrient values of the answer that was inserted.
C7_ClassifiedExactlyOnce ==
    (Cardinality(UnknownNames) = 1 /\ AnalyzeEnded) =>
        \A x \in UnknownNames :
           /\ CallsFor(x) = 1
           /\ \A k \in DOMAIN classify_log, i \in DOMAIN nutrition_data :
                 ( /\ classify_log[k].name = x
                   /\ classify_log[k].outcome = "ok"
                   /\ nutrition_data[i].menu = x ) =>
                     \A col \in {"calories", "protein", "fat", "carbs", "sodium"} :
                        nutrition_data[i][col] = classify_log[k].info[col]

\* C8: the returned records are ordered by weekday Mon < ... < Fri and,
\* within a weekday, by slot in the order of meal_types: Soup, Main, Side1,
\* Side2, Other.
C8_SortedBySlotEnumeration ==
    a_pc = "returned" =>
        \A i, j \in DOMAIN nutrition_df :
           i < j =>
              \/ DayOrder(nutrition_df[i].DayCol) < DayOrder(nutrition_df[j].DayCol)
              \/ /\ nutrition_df[i].DayCol = nutrition_df[j].DayCol
                 /\ IndexOf(MealTypes, nutrition_df[i].slot)
                      < IndexOf(MealTypes, nutrition_df[j].slot)

---------------------------------------------------------------------------
(* Properties of the daily totals, checked under SpecTotals *)

\* the rows of a frame that belong to one weekday
DayRecords(df, day) == { i \in DOMAIN df : df[i].DayCol = day }

\* the arithmetic sum of one column over a set of rows
RECURSIVE SumOver(_, _, _)
SumOver(df, rows, col) ==
    IF rows = {} THEN 0
    ELSE LET i == CHOOSE i \in rows : TRUE
         IN df[i][col] + SumOver(df, rows \ {i}, col)

\* C9: daily_totals has exactly one row for each weekday that has a record
\* and none for a weekday without, and each nutrient of a row is the sum of
\* that nutrient over the weekday's records.
C9_DailyTotalsAreSums ==
    a_pc = "exported" =>
        /\ \A day \in Range(Days) :
              Cardinality({ k \in DOMAIN daily_totals : daily_totals[k].DayCol = day })
                 = IF DayRecords(nutrition_df, day) # {} THEN 1 ELSE 0
        /\ \A k \in DOMAIN daily_totals :
              /\ daily_totals[k].DayCol \in Range(Days)
              /\ \A col \in Range(Nutrients) :
                    daily_totals[k][col] =
                       SumOver(nutrition_df,
                               DayRecords(nutrition_df, daily_totals[k].DayCol), col)

\* C9 witness: Monday's two records of 300 and 450 calories are totalled to
\* 750, and a weekday without records has no totals row
C9_Witness ==
    /\ a_pc = "exported"
    /\ \E i, j \in DayRecords(nutrition_df, "Mon") :
          /\ i # j
          /\ nutrition_df[i].calories = 300
          /\ nutrition_df[j].calories = 450
    /\ Cardinality(DayRecords(nutrition_df, "Mon")) = 2
    /\ \E k \in DOMAIN daily_totals :
          daily_totals[k].DayCol = "Mon" /\ daily_totals[k].calories = 750
    /\ DayRecords(nutrition_df, "Wed") = {}
    /\ \A k \in DOMAIN daily_totals : daily_totals[k].DayCol # "Wed"

---------------------------------------------------------------------------
(* Properties of the sheet round trip, checked under SpecRoundTrip *)

\* the cell of a plan at a weekday and a slot, NaN where the plan has none
CellAt(plan, day, slot) ==
    IF slot \in plan.columns /\ LocDay(plan, day, slot) # <<>>
    THEN LocDay(plan, day, slot)[1]
    ELSE NaN

\* a cell that holds a value: not NaN and not the empty string
NonEmpty(v) == NotNa(v) /\ v # Txt("")

\* C10: a weekly plan exported to its sheet and imported again has the same
\* non-empty value at every weekday and slot, and no other non-empty cell.
C10_RoundTrip ==
    x_pc = "preview" =>
        \A day \in Range(ExportDays), slot \in Range(row_order) :
           LET v == CellAt(plan_df, day, slot)
               w == CellAt(df_t, day, slot)
           IN /\ NonEmpty(v) => w = v
              /\ NonEmpty(w) => v = w

\* C10 witness: a plan with a padded menu on Tuesday and an empty Monday
\* cell has been exported and imported; the empty cell came back as NaN
C10_Witness ==
    /\ x_pc = "preview"
    /\ a_pc = "exported"
    /\ \E slot \in Range(row_order) \ {"Rice"} :
          /\ CellAt(plan_df, "Tue", slot) = Padded("B")
          /\ CellAt(df_t, "Tue", slot) = Padded("B")
          /\ CellAt(plan_df, "Mon", slot) = Txt("")
          /\ CellAt(df_t, "Mon", slot) = NaN
    /\ Len(df_t.rows) = Len(ExportDays)

---------------------------------------------------------------------------
(* Properties of the menu-plan import, checked under SpecImport *)

\* a sheet name of the workbook is recognised
SheetFound == \E i \in DOMAIN sheet_names : Strip(sheet_names[i]) \in SheetLabels

\* no column label of the sheet is a weekday once stripped
NoWeekdayColumn ==
    \A j \in DOMAIN upload.columns : Strip(upload.columns[j]) \notin Range(ExportDays)

\* C11: an import whose sheet has no weekday column, after trimming the column
\* labels, fails with MissingWeekdayColumnError: it never shows a normalized
\* plan and never hands one to the analysis.
C11_NoWeekdayColumnFails ==
    (SheetFound /\ NoWeekdayColumn) =>
        /\ x_pc \in {"uploaded", "MissingWeekdayColumnError"}
        /\ a_pc = "idle"

Imported == x_pc \in {"preview", "analyzing", "exporting", "sheet", "raised"}

\* C12: every cell of the normalized plan is a string; a blank cell of the
\* sheet is the empty string, never NaN.
C12_CellsAreStrings ==
    Imported =>
        \A k \in DOMAIN df_t.rows : \A c \in df_t.columns :
            ~df_t.rows[k].cells[c].na

\* the cell of the uploaded sheet under a row label and a column label
SheetCell(day, slot) ==
    LET i == CHOOSE i \in DOMAIN upload.index : Strip(upload.index[i]) = slot
        j == CHOOSE j \in DOMAIN upload.columns : Strip(upload.columns[j]) = day
    IN upload.cells[i][j]

\* C12 (amended): every cell of the normalized plan is the sheet's cell
\* unchanged, so a blank cell of the sheet is NaN in the plan, never the
\* empty string; the analysis gives a record only to cells that are not NaN.
C12_BlankCellsStayNaN ==
    Imported =>
        /\ \A k \in DOMAIN df_t.rows : \A c \in df_t.columns :
              LET v == df_t.rows[k].cells[c]
              IN /\ v = SheetCell(df_t.rows[k].DayCol, c)
                 /\ (v.na \/ v.pad \/ v.core # "")
        /\ \A n \in DOMAIN nutrition_data :
              \E k \in DOMAIN df_t.rows :
                 /\ df_t.rows[k].DayCol = nutrition_data[n].DayCol
                 /\ nutrition_data[n].slot \in df_t.columns
                 /\ ~df_t.rows[k].cells[nutrition_data[n].slot].na
                 /\ Strip(df_t.rows[k].cells[nutrition_data[n].slot])
                       = nutrition_data[n].menu

C12_Witness ==
    /\ x_pc = "analyzing"
    /\ a_pc = "returned"
    /\ Len(nutrition_df) = 1
    /\ \E k \in DOMAIN df_t.rows : \E c \in df_t.columns \cap Range(MealTypes) :
          df_t.rows[k].cells[c].na

\* C13: a workbook none of whose sheet names is Lunch or Dinner once trimmed
\* ends in the no-sheet error; nothing is parsed, analyze_menu_plan is not
\* called, no menu is classified and nothing is written to the catalog.
C13_NoSheetNothingRuns ==
    ~SheetFound =>
        /\ x_pc \in {"uploaded", "no_sheet"}
        /\ (x_pc = "uploaded" => (ENABLED ImportNoSheet /\ ~ENABLED ImportPreview))
        /\ (x_pc = "no_sheet" => Falsy(sheet_name))
        /\ df_t = NoPlan
        /\ plan_df = NoPlan
        /\ sheet = NoSheet
        /\ a_pc = "idle"
        /\ classify_log = <<>>
        /\ db \in Stores

C13_Witness ==
    /\ x_pc = "no_sheet"
    /\ Len(sheet_names) > 1
    /\ ~SheetFound
    /\ Len(upload.columns) > 1

---------------------------------------------------------------------------
(* Properties of bulk_add, checked under SpecBulk *)

\* C14: bulk_add skips duplicates: it inserts no name that the catalog holds
\* already or that came earlier in the list, so the catalog keeps at most one
\* record per menu name.
C14_NamesStayUnique ==
    \A i \in DOMAIN db : \A j \in DOMAIN db :
        db[i].name = db[j].name => i = j

---------------------------------------------------------------------------
(* Properties of make_plan's used_menus, checked under SpecPlan *)

\* a step of the loop that appends a day row
DayAppended == plan_len' = plan_len + 1

\* the category of a catalog item is none of Soup, Main, Side
IsEtcName(x) == \E m \in Range(menus) : m.name = x /\ m.category \notin Mandatory

\* C15: on every day the Other slot is empty or holds an item of a category
\* other than Soup, Main, Side that was not in used_menus when the day began.
C15_OtherWasUnused ==
    [][DayAppended =>
          \/ day_plan'.Other = ""
          \/ /\ IsEtcName(day_plan'.Other)
             /\ day_plan'.Other \notin used_menus]_vars

\* C15 (amended): on every day the Other slot is empty or holds an item of a
\* category other than Soup, Main, Side; the item was not in used_menus when
\* the day began, unless every item of those categories was.
C15_OtherUnusedUnlessExhausted ==
    [][DayAppended =>
          \/ day_plan'.Other = ""
          \/ /\ IsEtcName(day_plan'.Other)
             /\ \/ day_plan'.Other \notin used_menus
                \/ \A m \in Range(EtcRows(menus)) : m.name \in used_menus]_vars

\* the fixed rice value sits in the Other slot of a later day
C15_Witness ==
    /\ plan_len >= 2
    /\ day_plan.Other = Rice
    /\ Len(EtcRows(menus)) >= 2

\* the slots of a day row filled from a mandatory category
SlotCategory == [Soup |-> "Soup", Main |-> "Main", Side1 |-> "Side", Side2 |-> "Side"]

\* C16: used_menus only grows; after each day it holds every value placed
\* that day and the rice value; a Soup, Main or Side item that was used
\* before is placed again only when every item of its category was used.
C16_UsedGrowsRepeatOnExhaustion ==
    [][/\ used_menus \subseteq used_menus'
       /\ DayAppended =>
             /\ {day_plan'.Soup, day_plan'.Main, day_plan'.Side1, day_plan'.Side2,
                 Rice} \subseteq used_menus'
             /\ (day_plan'.Other # "" => day_plan'.Other \in used_menus')
             /\ \A s \in DOMAIN SlotCategory :
                   day_plan'[s] \in used_menus =>
                      \A m \in Range(CategoryRows(menus, SlotCategory[s])) :
                         m.name \in used_menus]_vars

\* a plan of five days made from two soups: the soups had to repeat
C16_Witness ==
    /\ pc = "returned"
    /\ plan_len = 5
    /\ Len(CategoryRows(menus, "Soup")) = 2
    /\ Len(CategoryRows(menus, "Side")) = 4

---------------------------------------------------------------------------
(* Properties of concurrent analyses, checked under SpecRace *)

\* no name occurs twice in a sequence of names, or of store rows
NoRepeat(names) ==
    \A i \in DOMAIN names : \A j \in DOMAIN names : names[i] = names[j] => i = j
StoreNames == [i \in DOMAIN db |-> db[i].name]

\* C17: a run inserts any name at most once, and a run executed alone leaves
\* no name twice in the store; two interleaved runs can both insert a name
\* that was absent and leave two records of it (the state C17_Witness).
C17_OneRunInsertsOnce ==
    /\ \A p \in DOMAIN runs : NoRepeat(runs[p].inserted)
    /\ Len(runs) = 1 => NoRepeat(StoreNames)

\* both runs have inserted the same name: the store holds it twice
C17_Witness ==
    /\ Len(runs) = 2
    /\ \E x \in Range(runs[1].inserted) \cap Range(runs[2].inserted) :
          Cardinality({ i \in DOMAIN db : db[i].name = x }) = 2

====
